---------------------------- MODULE Spec2Model ----------------------------
(***************************************************************************)
(* A model of visualize_point_cloud (src/visualize.py): the line-by-line   *)
(* parse of a categorized point-cloud file, the scanner-relative shift and *)
(* the outcome of the run.                                                 *)
(*                                                                         *)
(* Text is modelled as text: a line is a sequence of one-character         *)
(* strings, and strip(), startswith(), split() and float() are operators   *)
(* that work on the characters.  A coordinate is an integer number of      *)
(* tenths, so "1", "1.0" and "1." all parse to 10.                         *)
(***************************************************************************)
EXTENDS Integers, Sequences, FiniteSets, TLC

\* The longest file, in lines.
MaxLines == 3

-----------------------------------------------------------------------------
(* str.strip, str.startswith, str.split                                    *)

Whitespace == {" ", "\t"}

RECURSIVE LStrip(_)
LStrip(s) ==
    IF s # <<>> /\ Head(s) \in Whitespace THEN LStrip(Tail(s)) ELSE s

RECURSIVE RStrip(_)
RStrip(s) ==
    IF s # <<>> /\ s[Len(s)] \in Whitespace
    THEN RStrip(SubSeq(s, 1, Len(s) - 1))
    ELSE s

\* line.strip()
Strip(s) == RStrip(LStrip(s))

\* line.startswith(prefix)
StartsWith(s, prefix) ==
    /\ Len(s) >= Len(prefix)
    /\ SubSeq(s, 1, Len(prefix)) = prefix

RECURSIVE SplitFrom(_, _, _)
SplitFrom(s, cur, acc) ==
    IF s = <<>>
    THEN IF cur = <<>> THEN acc ELSE Append(acc, cur)
    ELSE IF Head(s) \in Whitespace
         THEN SplitFrom(Tail(s), <<>>, IF cur = <<>> THEN acc ELSE Append(acc, cur))
         ELSE SplitFrom(Tail(s), Append(cur, Head(s)), acc)

\* line.split(): the maximal runs of non-whitespace characters, in order.
Split(s) == SplitFrom(s, <<>>, <<>>)

\* parts[2:]
Drop2(parts) ==
    IF Len(parts) <= 2 THEN <<>> ELSE SubSeq(parts, 3, Len(parts))

-----------------------------------------------------------------------------
(* float(): an optional sign, digits with at most one ".", at least one    *)
(* digit.  (Python also accepts exponents, "inf", "nan" and "_"; no token  *)
(* of the files below uses them.)  The value is kept in tenths; the tokens *)
(* below carry at most one fractional digit, so nothing is rounded.        *)

Digits == {"0", "1", "2", "3", "4", "5", "6", "7", "8", "9"}

DigitVal(c) ==
    CASE c = "0" -> 0 [] c = "1" -> 1 [] c = "2" -> 2 [] c = "3" -> 3
      [] c = "4" -> 4 [] c = "5" -> 5 [] c = "6" -> 6 [] c = "7" -> 7
      [] c = "8" -> 8 [] c = "9" -> 9

Unsigned(tok) ==
    IF tok # <<>> /\ Head(tok) \in {"-", "+"} THEN Tail(tok) ELSE tok

DotAt(u) ==
    IF \E i \in 1..Len(u) : u[i] = "."
    THEN CHOOSE i \in 1..Len(u) : u[i] = "." /\ \A j \in 1..(i - 1) : u[j] # "."
    ELSE Len(u) + 1

\* Whether float(tok) returns (TRUE) or raises ValueError (FALSE).
IsFloat(tok) ==
    LET u == Unsigned(tok) IN
    /\ \E i \in 1..Len(u) : u[i] \in Digits
    /\ \A i \in 1..Len(u) : u[i] \in Digits \/ (u[i] = "." /\ i = DotAt(u))

RECURSIVE DigitsVal(_, _)
DigitsVal(ds, acc) ==
    IF ds = <<>> THEN acc ELSE DigitsVal(Tail(ds), 10 * acc + DigitVal(Head(ds)))

\* float(tok), in tenths.
FloatVal(tok) ==
    LET u    == Unsigned(tok)
        d    == DotAt(u)
        int  == DigitsVal(SubSeq(u, 1, d - 1), 0)
        frac == IF d + 1 <= Len(u) THEN DigitVal(u[d + 1]) ELSE 0
        mag  == 10 * int + frac
    IN  IF tok # <<>> /\ Head(tok) = "-" THEN 0 - mag ELSE mag

\* [float(x) for x in parts]
Floats(parts) == [i \in 1..Len(parts) |-> FloatVal(parts[i])]

AllFloat(parts) == \A i \in 1..Len(parts) : IsFloat(parts[i])

\* The first token float() rejects: the one the ValueError names.
FirstBad(parts) ==
    parts[CHOOSE i \in 1..Len(parts) :
             ~IsFloat(parts[i]) /\ \A j \in 1..(i - 1) : IsFloat(parts[j])]

\* np.rad2deg, in tenths of a degree from tenths of a radian (180/pi ~ 57.3).
Rad2Deg(r) == (r * 573) \div 10

-----------------------------------------------------------------------------
(* The input: a path and, when it names a regular file, its lines.  Lines  *)
(* are written without their "\n", which strip() removes anyway.           *)

file_path == "scan.txt"

SP == <<" ">>
MarkerPos == <<"#", " ", "S", "C", "A", "N", "N", "E", "R", "_", "P", "O", "S", ":">>
MarkerRot == <<"#", " ", "S", "C", "A", "N", "N", "E", "R", "_", "R", "O", "T", ":">>
MarkerComment == <<"#">>

LabelWall    == <<"w", "a", "l", "l">>
LabelWallCap == <<"W", "a", "l", "l">>
LabelTable   == <<"t", "a", "b", "l", "e">>
LabelChair   == <<"c", "h", "a", "i", "r">>

\* "# SCANNER_POS: 1 0 0"
LinePosA == MarkerPos \o <<" ", "1", " ", "0", " ", "0">>
\* "# SCANNER_POS: 0 2.5 -1"
LinePosB == MarkerPos \o <<" ", "0", " ", "2", ".", "5", " ", "-", "1">>
\* "# SCANNER_POS: 5": one value
LinePosShort == MarkerPos \o <<" ", "5">>
\* "# SCANNER_POS:1 2 3": the first value attached to the marker
LinePosGlued == MarkerPos \o <<"1", " ", "2", " ", "3">>
\* "# SCANNER_POS: x 0 0"
LinePosBad == MarkerPos \o <<" ", "x", " ", "0", " ", "0">>
\* "# SCANNER_ROT: 1.5 0"
LineRotA == MarkerRot \o <<" ", "1", ".", "5", " ", "0">>
\* "# SCANNER_ROT: 3 0.5"
LineRotB == MarkerRot \o <<" ", "3", " ", "0", ".", "5">>
\* "# SCANNER_ROT: 1": one value
LineRotShort == MarkerRot \o <<" ", "1">>
\* "# x"
LineComment == <<"#", " ", "x">>
\* "  ": whitespace only
LineBlank == <<" ", " ">>
\* "1.0 2.0 3.0 wall"
LineWall1 == <<"1", ".", "0", " ", "2", ".", "0", " ", "3", ".", "0", " ">> \o LabelWall
\* " 1 0 0<TAB>table "
LineTable == <<" ", "1", " ", "0", " ", "0", "\t">> \o LabelTable \o SP
\* "4 5 6 Wall"
LineWallCap == <<"4", " ", "5", " ", "6", " ">> \o LabelWallCap
\* "-1 0 2 wall"
LineWall2 == <<"-", "1", " ", "0", " ", "2", " ">> \o LabelWall
\* "1.0 2.0 chair": three tokens
LineThree == <<"1", ".", "0", " ", "2", ".", "0", " ">> \o LabelChair
\* "1 2 3 big wall": five tokens
LineFive == <<"1", " ", "2", " ", "3", " ", "b", "i", "g", " ">> \o LabelWall
\* "1.0 abc 3.0 wall": four tokens, the second no number
LineBadNum == <<"1", ".", "0", " ", "a", "b", "c", " ", "3", ".", "0", " ">> \o LabelWall

Lines ==
    { LinePosA, LinePosB, LinePosShort, LinePosGlued, LinePosBad,
      LineRotA, LineRotB, LineRotShort, LineComment, LineBlank,
      LineWall1, LineTable, LineWallCap, LineWall2,
      LineThree, LineFive, LineBadNum }

Files == UNION { [1..n -> Lines] : n \in 0..MaxLines }

-----------------------------------------------------------------------------
VARIABLES
    file_kind,        \* "missing", "dir" or "file": what file_path names
    file,             \* the lines of the file
    pc,               \* where visualize_point_cloud stands
    handle,           \* whether f is open
    idx,              \* lines the for loop has taken from f
    names,            \* the keys of objects, in insertion order
    objects,          \* label -> its points
    scanner_pos,
    scanner_rot_deg,
    yaw_rad,
    k,                \* labels the shift loop has done
    exc,              \* the text of the exception being propagated
    out,              \* the messages printed
    outcome,          \* how the run ended
    shown             \* what plt.show() displays

vars == << file_kind, file, pc, handle, idx, names, objects, scanner_pos,
           scanner_rot_deg, yaw_rad, k, exc, out, outcome, shown >>

EmptyMap == [n \in {} |-> <<>>]
NoExc == <<>>
Nothing == [drawn |-> FALSE, points |-> EmptyMap, pos |-> <<>>, rot |-> <<>>, yaw |-> 0]

Init ==
    /\ file_kind \in {"missing", "dir", "file"}
    /\ file \in Files
    /\ file_kind # "file" => file = <<>>
    /\ pc = "start"
    /\ handle = FALSE
    /\ idx = 0
    /\ names = <<>>
    /\ objects = EmptyMap
    /\ scanner_pos = <<0, 0, 0>>
    /\ scanner_rot_deg = <<0, 0>>
    /\ yaw_rad = 0
    /\ k = 0
    /\ exc = NoExc
    /\ out = <<>>
    /\ outcome = "running"
    /\ shown = Nothing

-----------------------------------------------------------------------------
(* Helpers of the steps                                                    *)

NumStr(n) == CASE n = 0 -> "0" [] n = 1 -> "1" [] n = 2 -> "2" [] OTHER -> "n"

\* The ValueError of float(tok).
FloatError(tok) == <<"could not convert string to float: '">> \o tok \o <<"'">>

\* The if / elif chain of the loop body.
Classify(line) ==
    IF StartsWith(line, MarkerPos) THEN "pos"
    ELSE IF StartsWith(line, MarkerRot) THEN "rot"
    ELSE IF line # <<>> /\ ~StartsWith(line, MarkerComment) THEN "data"
    ELSE "skip"

\* ParsePos with the first SCANNER_POS line winning over the later ones.
ParsePosFirstWins(line) ==
    IF scanner_pos # <<0, 0, 0>> THEN scanner_pos ELSE Floats(Drop2(Split(line)))

\* ParsePos with a header honoured only before the first point is stored.
ParsePosHeaderOnly(line) ==
    IF names # <<>> THEN scanner_pos ELSE Floats(Drop2(Split(line)))

\* np.array([float(x) for x in line.split()[2:]])
ParsePos(line) == Floats(Drop2(Split(line)))

\* [float(x) for x in line.split()[2:]] of a SCANNER_ROT line
ParseRot(line) == Floats(Drop2(Split(line)))

\* IsRecord with the token count checked as "at least three".
IsRecordAtLeast3(parts) == Len(parts) >= 3

\* IsRecord with a line of unparseable numbers skipped like a short one.
IsRecordTolerant(parts) == Len(parts) = 4 /\ AllFloat(SubSeq(parts, 1, 3))

\* len(parts) == 4
IsRecord(parts) == Len(parts) = 4

\* AppendPoint with the point put in front (insert(0, ...)).
AppendPointFront(objs, name, pt) ==
    IF name \in DOMAIN objs
    THEN [objs EXCEPT ![name] = <<pt>> \o @]
    ELSE [n \in DOMAIN objs \cup {name} |-> IF n = name THEN <<pt>> ELSE objs[n]]

\* objects[name].append([x, y, z]) on a defaultdict(list)
AppendPoint(objs, name, pt) ==
    IF name \in DOMAIN objs
    THEN [objs EXCEPT ![name] = Append(@, pt)]
    ELSE [n \in DOMAIN objs \cup {name} |-> IF n = name THEN <<pt>> ELSE objs[n]]

\* IsEmpty as "objects is None", which a defaultdict never is.
IsEmptyNever(objs) == FALSE

\* not objects
IsEmpty(objs) == DOMAIN objs = {}

\* WithExit without the with statement: nothing closes f.
WithExitLeak(h) == h

\* Leaving the with block, normally or by an exception, closes f.
WithExit(h) == FALSE

\* Whether numpy can subtract an array of this shape from an (n, 3) array.
Broadcastable(pos) == Len(pos) \in {1, 3}

\* np.array(points) - pos: pos of one component is subtracted from every
\* coordinate, pos of three component by component.
Subtract(points, pos) ==
    [i \in 1..Len(points) |->
        [c \in 1..3 |-> points[i][c] - (IF Len(pos) = 1 THEN pos[1] ELSE pos[c])]]

\* What the steps of the loop body leave alone.
LoopFrame == UNCHANGED << file_kind, file, k, out, outcome, shown >>

\* An exception leaves the with block: f is closed and the except clause is next.
RaiseInLoop(text) ==
    /\ pc' = "except"
    /\ exc' = text
    /\ handle' = WithExit(handle)
    /\ idx' = idx + 1
    /\ UNCHANGED << names, objects, scanner_pos, scanner_rot_deg, yaw_rad >>

-----------------------------------------------------------------------------
(* The steps                                                               *)

\* if not os.path.exists(file_path)
CheckExists ==
    /\ pc = "start"
    /\ IF file_kind = "missing"
       THEN /\ out' = Append(out, <<"Error: File not found at '", file_path, "'">>)
            /\ outcome' = "not_found"
            /\ pc' = "done"
       ELSE /\ pc' = "open"
            /\ UNCHANGED << out, outcome >>
    /\ UNCHANGED << file_kind, file, handle, idx, names, objects, scanner_pos,
                    scanner_rot_deg, yaw_rad, k, exc, shown >>

\* with open(file_path, "r") as f
OpenFile ==
    /\ pc = "open"
    /\ IF file_kind = "dir"
       THEN /\ exc' = <<"[Errno 21] Is a directory: '", file_path, "'">>
            /\ pc' = "except"
            /\ UNCHANGED handle
       ELSE /\ handle' = TRUE
            /\ pc' = "read"
            /\ UNCHANGED exc
    /\ UNCHANGED << file_kind, file, idx, names, objects, scanner_pos,
                    scanner_rot_deg, yaw_rad, k, out, outcome, shown >>

\* The loop body on a line that starts with "# SCANNER_POS:".
ReadScannerPos ==
    /\ pc = "read"
    /\ idx < Len(file)
    /\ LET line == Strip(file[idx + 1])
           vals == Drop2(Split(line))
       IN  /\ Classify(line) = "pos"
           /\ IF AllFloat(vals)
              THEN /\ scanner_pos' = ParsePos(line)
                   /\ idx' = idx + 1
                   /\ UNCHANGED << pc, handle, names, objects, scanner_rot_deg,
                                   yaw_rad, exc >>
              ELSE RaiseInLoop(FloatError(FirstBad(vals)))
    /\ LoopFrame

\* The loop body on a line that starts with "# SCANNER_ROT:".
ReadScannerRot ==
    /\ pc = "read"
    /\ idx < Len(file)
    /\ LET line == Strip(file[idx + 1])
           vals == Drop2(Split(line))
       IN  /\ Classify(line) = "rot"
           /\ IF ~AllFloat(vals)
              THEN RaiseInLoop(FloatError(FirstBad(vals)))
              ELSE IF Len(vals) < 2
              THEN RaiseInLoop(<<"not enough values to unpack (expected 2, got ",
                                 NumStr(Len(vals)), ")">>)
              ELSE IF Len(vals) > 2
              THEN RaiseInLoop(<<"too many values to unpack (expected 2)">>)
              ELSE /\ yaw_rad' = ParseRot(line)[1]
                   /\ scanner_rot_deg' = << Rad2Deg(ParseRot(line)[1]),
                                            Rad2Deg(ParseRot(line)[2]) >>
                   /\ idx' = idx + 1
                   /\ UNCHANGED << pc, handle, names, objects, scanner_pos, exc >>
    /\ LoopFrame

\* The loop body on a non-empty line that does not start with "#".
ReadDataLine ==
    /\ pc = "read"
    /\ idx < Len(file)
    /\ LET line  == Strip(file[idx + 1])
           parts == Split(line)
       IN  /\ Classify(line) = "data"
           /\ IF ~IsRecord(parts)
              THEN /\ idx' = idx + 1
                   /\ UNCHANGED << pc, handle, names, objects, scanner_pos,
                                   scanner_rot_deg, yaw_rad, exc >>
              ELSE IF ~AllFloat(SubSeq(parts, 1, 3))
              THEN RaiseInLoop(FloatError(FirstBad(SubSeq(parts, 1, 3))))
              ELSE /\ objects' = AppendPoint(objects, parts[4],
                                             Floats(SubSeq(parts, 1, 3)))
                   /\ names' = IF parts[4] \in DOMAIN objects
                               THEN names ELSE Append(names, parts[4])
                   /\ idx' = idx + 1
                   /\ UNCHANGED << pc, handle, scanner_pos, scanner_rot_deg,
                                   yaw_rad, exc >>
    /\ LoopFrame

\* The loop body on an empty line or a comment: no branch is taken.
SkipLine ==
    /\ pc = "read"
    /\ idx < Len(file)
    /\ Classify(Strip(file[idx + 1])) = "skip"
    /\ idx' = idx + 1
    /\ UNCHANGED << pc, handle, names, objects, scanner_pos, scanner_rot_deg,
                    yaw_rad, exc >>
    /\ LoopFrame

\* The loop ends and the with block is left.
EndOfFile ==
    /\ pc = "read"
    /\ idx = Len(file)
    /\ handle' = WithExit(handle)
    /\ pc' = "check"
    /\ UNCHANGED << file_kind, file, idx, names, objects, scanner_pos,
                    scanner_rot_deg, yaw_rad, k, exc, out, outcome, shown >>

\* if not objects
CheckEmpty ==
    /\ pc = "check"
    /\ IF IsEmpty(objects)
       THEN /\ out' = Append(out, <<"Error: No valid point data found in '",
                                    file_path, "'.">>)
            /\ outcome' = "no_data"
            /\ pc' = "done"
       ELSE /\ pc' = "shift"
            /\ UNCHANGED << out, outcome >>
    /\ UNCHANGED << file_kind, file, handle, idx, names, objects, scanner_pos,
                    scanner_rot_deg, yaw_rad, k, exc, shown >>

\* One turn of: for name in objects: objects[name] = np.array(...) - scanner_pos
ShiftStep ==
    /\ pc = "shift"
    /\ k < Len(names)
    /\ IF Broadcastable(scanner_pos)
       THEN /\ objects' = [objects EXCEPT ![names[k + 1]] = Subtract(@, scanner_pos)]
            /\ k' = k + 1
            /\ pc' = IF k + 1 = Len(names) THEN "render" ELSE "shift"
            /\ UNCHANGED exc
       ELSE /\ exc' = <<"operands could not be broadcast together with shapes">>
            /\ pc' = "except"
            /\ UNCHANGED << objects, k >>
    /\ UNCHANGED << file_kind, file, handle, idx, names, scanner_pos,
                    scanner_rot_deg, yaw_rad, out, outcome, shown >>

\* The figure, its title (which reads scanner_pos[0], [1] and [2]) and plt.show().
Render ==
    /\ pc = "render"
    /\ IF Len(scanner_pos) >= 3
       THEN /\ out' = Append(out, <<"Displaying plot. Close the plot window to exit.">>)
            /\ shown' = [drawn |-> TRUE, points |-> objects,
                         pos |-> SubSeq(scanner_pos, 1, 3),
                         rot |-> scanner_rot_deg, yaw |-> yaw_rad]
            /\ outcome' = "shown"
            /\ pc' = "done"
            /\ UNCHANGED exc
       ELSE /\ exc' = <<"index ", NumStr(Len(scanner_pos)),
                        " is out of bounds for axis 0 with size ",
                        NumStr(Len(scanner_pos))>>
            /\ pc' = "except"
            /\ UNCHANGED << out, shown, outcome >>
    /\ UNCHANGED << file_kind, file, handle, idx, names, objects, scanner_pos,
                    scanner_rot_deg, yaw_rad, k >>

\* except Exception as e: print(f"An error occurred: {e}")
Handler ==
    /\ pc = "except"
    /\ out' = Append(out, <<"An error occurred: ">> \o exc)
    /\ exc' = NoExc
    /\ outcome' = "error"
    /\ pc' = "done"
    /\ UNCHANGED << file_kind, file, handle, idx, names, objects, scanner_pos,
                    scanner_rot_deg, yaw_rad, k, shown >>

Next ==
    \/ CheckExists
    \/ OpenFile
    \/ ReadScannerPos
    \/ ReadScannerRot
    \/ ReadDataLine
    \/ SkipLine
    \/ EndOfFile
    \/ CheckEmpty
    \/ ShiftStep
    \/ Render
    \/ Handler

Spec == Init /\ [][Next]_vars

-----------------------------------------------------------------------------
(* What a file says, read off its lines without running the loop           *)

\* The tokens and the kind of each line, worked out once per line.
TokensOf == [line \in Lines |-> Split(Strip(line))]

KindOf ==
    [line \in Lines |->
        LET s == Strip(line) IN
        IF StartsWith(s, MarkerPos) THEN "pos"
        ELSE IF StartsWith(s, MarkerRot) THEN "rot"
        ELSE IF s = <<>> \/ Head(s) = "#" THEN "skip"
        ELSE "data"]

Parts(f, i) == TokensOf[f[i]]
Kind(f, i) == KindOf[f[i]]

\* A data line of four tokens whose first three are numbers.
IsPointLine(f, i) ==
    /\ Kind(f, i) = "data"
    /\ Len(Parts(f, i)) = 4
    /\ \A c \in 1..3 : IsFloat(Parts(f, i)[c])

\* A data line of four tokens with a first, second or third token that is no number.
IsBadNumberLine(f, i) ==
    /\ Kind(f, i) = "data"
    /\ Len(Parts(f, i)) = 4
    /\ \E c \in 1..3 : ~IsFloat(Parts(f, i)[c])

\* A data line whose split does not give four tokens.
IsWrongCountLine(f, i) ==
    /\ Kind(f, i) = "data"
    /\ Len(Parts(f, i)) # 4

HeaderValues(f, i) == Drop2(Parts(f, i))

\* A header line whose values do not parse: a token that is no number, or a
\* SCANNER_ROT line without exactly two values.
IsBadHeader(f, i) ==
    \/ /\ Kind(f, i) \in {"pos", "rot"}
       /\ \E j \in 1..Len(HeaderValues(f, i)) : ~IsFloat(HeaderValues(f, i)[j])
    \/ /\ Kind(f, i) = "rot"
       /\ Len(HeaderValues(f, i)) # 2

LineRaises(f, i) == IsBadHeader(f, i) \/ IsBadNumberLine(f, i)

WellFormedData(f) == \A i \in 1..Len(f) : Kind(f, i) = "data" => IsPointLine(f, i)
HeadersParse(f) == \A i \in 1..Len(f) : ~IsBadHeader(f, i)

LabelsOf(f) == { Parts(f, i)[4] : i \in { j \in 1..Len(f) : IsPointLine(f, j) } }

PointAt(f, i) == [c \in 1..3 |-> FloatVal(Parts(f, i)[c])]

RECURSIVE PointsOf(_, _)
PointsOf(f, label) ==
    IF f = <<>> THEN <<>>
    ELSE LET n    == Len(f)
             rest == PointsOf(SubSeq(f, 1, n - 1), label)
         IN  IF IsPointLine(f, n) /\ Parts(f, n)[4] = label
             THEN Append(rest, PointAt(f, n))
             ELSE rest

\* One bucket per label, each with the label's points in file order.
Expected(f) == [l \in LabelsOf(f) |-> PointsOf(f, l)]

Prefix(f, n) == SubSeq(f, 1, n)

\* A file without any point line and without a line of unparseable numbers.
NoPointFile(f) ==
    \A i \in 1..Len(f) : Kind(f, i) \in {"pos", "rot", "skip"} \/ IsWrongCountLine(f, i)

\* The file without its data lines of a wrong token count.
RECURSIVE WithoutWrongCount(_)
WithoutWrongCount(f) ==
    IF f = <<>> THEN <<>>
    ELSE LET n == Len(f) rest == WithoutWrongCount(SubSeq(f, 1, n - 1))
         IN  IF IsWrongCountLine(f, n) THEN rest ELSE Append(rest, f[n])

LastOf(f, kind) ==
    CHOOSE i \in 1..Len(f) :
        Kind(f, i) = kind /\ \A j \in (i + 1)..Len(f) : Kind(f, j) # kind

HasLine(f, kind) == \E i \in 1..Len(f) : Kind(f, i) = kind

\* The values of the last SCANNER_POS line, or the origin.
LastPos(f) ==
    IF HasLine(f, "pos")
    THEN [j \in 1..Len(HeaderValues(f, LastOf(f, "pos"))) |->
             FloatVal(HeaderValues(f, LastOf(f, "pos"))[j])]
    ELSE <<0, 0, 0>>

\* The values of the last SCANNER_ROT line, or zero yaw and pitch.
LastRot(f) ==
    IF HasLine(f, "rot")
    THEN [j \in 1..Len(HeaderValues(f, LastOf(f, "rot"))) |->
             FloatVal(HeaderValues(f, LastOf(f, "rot"))[j])]
    ELSE <<0, 0>>

\* Each point of each bucket minus pos, component by component.
Minus(objs, pos) ==
    [l \in DOMAIN objs |->
        [i \in 1..Len(objs[l]) |-> [c \in 1..3 |-> objs[l][i][c] - pos[c]]]]

\* Whether seq occurs in msg as a run of consecutive parts.
Contains(msg, seq) ==
    \E a \in 0..(Len(msg) - Len(seq)) : SubSeq(msg, a + 1, a + Len(seq)) = seq

\* The exception being propagated was raised by the loop body.
RaisedInLoop ==
    /\ pc = "except"
    /\ exc[1] \in { "could not convert string to float: '",
                    "not enough values to unpack (expected 2, got ",
                    "too many values to unpack (expected 2)" }

\* The read loop has ended normally.
ParseDone == pc \in {"check", "shift", "render"} \/ outcome \in {"no_data", "shown"}

-----------------------------------------------------------------------------
(* The claims                                                              *)

\* C1 as stated: whenever every data line of the file has four tokens with
\* three numbers, what the read loop leaves in objects (when it ends, normally
\* or not) is one bucket per label with the label's points in file order.
C1_Original ==
    (file_kind = "file" /\ WellFormedData(file) /\ (pc = "check" \/ RaisedInLoop))
        => objects = Expected(file)

\* C1, amended: when every data line has four tokens with three numbers and
\* every header line parses, the read loop never raises, after each line
\* objects holds exactly the points of the lines read so far, one bucket per
\* label (case-sensitive) in file order, and at the end those of the whole file.
C1_Buckets ==
    (file_kind = "file" /\ WellFormedData(file) /\ HeadersParse(file))
        => /\ ~RaisedInLoop
           /\ pc = "read" => objects = Expected(Prefix(file, idx))
           /\ pc = "check" => idx = Len(file) /\ objects = Expected(file)

C1_Witness ==
    /\ pc = "check"
    /\ WellFormedData(file) /\ HeadersParse(file)
    /\ Cardinality(DOMAIN objects) >= 2
    /\ \E l \in DOMAIN objects : Len(objects[l]) >= 2

\* C2 as stated: once all lines are read without an exception and there is a
\* point, the shift replaces every point by the point minus the sensor
\* position, component by component, keeping labels, counts and order.
C2_Original ==
    ( /\ file_kind = "file"
      /\ \A i \in 1..Len(file) : ~LineRaises(file, i)
      /\ LabelsOf(file) # {}
      /\ pc \in {"render", "done"} )
        => /\ Len(LastPos(file)) = 3
           /\ objects = Minus(Expected(file), LastPos(file))

\* C3 as stated: a file without any point line (only headers, comments, blank
\* lines and lines of a wrong token count) ends in the no-data outcome and
\* never enters the shift or the rendering.
C3_Original ==
    (file_kind = "file" /\ NoPointFile(file))
        => /\ pc \notin {"shift", "render"}
           /\ pc = "done" => outcome = "no_data"

\* C3, amended: a file without any point line in which every header line
\* parses ends in the no-data outcome with the no-data message and nothing
\* else printed, never in the handler's error outcome, and the shift and the
\* rendering are never entered.
C3_NoData ==
    (file_kind = "file" /\ NoPointFile(file) /\ HeadersParse(file))
        => /\ pc \notin {"shift", "render", "except"}
           /\ k = 0 /\ ~shown.drawn /\ outcome # "error"
           /\ pc = "done" =>
                 /\ outcome = "no_data"
                 /\ out = << <<"Error: No valid point data found in '", file_path, "'.">> >>

C3_Witness ==
    /\ pc = "done" /\ outcome = "no_data"
    /\ \E i \in 1..Len(file) : Kind(file, i) = "pos"
    /\ \E i \in 1..Len(file) : IsWrongCountLine(file, i)

\* C4: the loop body on a data line whose split does not give four tokens
\* changes nothing but the position in the file (no point, no bucket, no
\* pose, no message, no exception) and the loop goes on; so after each line
\* objects is what the lines read so far give with those lines left out.
C4_SkipsWrongCount ==
    /\ [][ (pc = "read" /\ idx < Len(file) /\ IsWrongCountLine(file, idx + 1))
             => /\ pc' = "read" /\ idx' = idx + 1 /\ handle'
                /\ objects' = objects /\ names' = names
                /\ scanner_pos' = scanner_pos /\ yaw_rad' = yaw_rad
                /\ scanner_rot_deg' = scanner_rot_deg
                /\ out' = out /\ exc' = exc ]_vars
    /\ [](pc = "read" => objects = Expected(WithoutWrongCount(Prefix(file, idx))))

C4_Witness ==
    \E i, j \in 1..idx :
        /\ i < j
        /\ IsWrongCountLine(file, i)
        /\ IsPointLine(file, j)
        /\ Parts(file, j)[4] \in DOMAIN objects
        /\ Parts(file, i)[Len(Parts(file, i))] \notin DOMAIN objects

\* C5: once the read loop has ended, the sensor position is that of the last
\* SCANNER_POS line of the file and the yaw and the displayed degrees those of
\* the last SCANNER_ROT line (the defaults without one); what is displayed
\* carries that pose and the points shifted by that position.
C5_LastHeaderWins ==
    (file_kind = "file" /\ ParseDone)
        => /\ scanner_pos = LastPos(file)
           /\ yaw_rad = LastRot(file)[1]
           /\ scanner_rot_deg = << Rad2Deg(LastRot(file)[1]), Rad2Deg(LastRot(file)[2]) >>
           /\ shown.drawn =>
                 /\ shown.pos = LastPos(file)
                 /\ shown.yaw = LastRot(file)[1]
                 /\ shown.rot = << Rad2Deg(LastRot(file)[1]), Rad2Deg(LastRot(file)[2]) >>
                 /\ shown.points = Minus(Expected(file), LastPos(file))

C5_Witness ==
    /\ shown.drawn
    /\ \E i, j \in 1..Len(file) :
          /\ i < j
          /\ Kind(file, i) = "pos" /\ Kind(file, j) = "pos"
          /\ HeaderValues(file, i) # HeaderValues(file, j)

\* C6 as stated: once a point is stored, no later line changes the pose.
C6_Original ==
    [][ names # <<>> => /\ scanner_pos' = scanner_pos
                        /\ yaw_rad' = yaw_rad
                        /\ scanner_rot_deg' = scanner_rot_deg ]_vars

\* C6, amended: a header takes effect wherever it stands: a SCANNER_POS or
\* SCANNER_ROT line that parses and comes after the first stored point sets
\* the position, or the yaw and the displayed degrees, to its own values.
C6_LateHeaderApplies ==
    [][ (pc = "read" /\ idx < Len(file) /\ names # <<>> /\ ~IsBadHeader(file, idx + 1))
          => /\ Kind(file, idx + 1) = "pos" =>
                   scanner_pos' = LastPos(<<file[idx + 1]>>)
             /\ Kind(file, idx + 1) = "rot" =>
                   /\ yaw_rad' = LastRot(<<file[idx + 1]>>)[1]
                   /\ scanner_rot_deg' = << Rad2Deg(LastRot(<<file[idx + 1]>>)[1]),
                                            Rad2Deg(LastRot(<<file[idx + 1]>>)[2]) >> ]_vars

C6_Witness ==
    /\ pc = "read" /\ idx >= 2
    /\ names # <<>>
    /\ Kind(file, idx) = "pos"
    /\ scanner_pos = LastPos(<<file[idx]>>)
    /\ scanner_pos # <<0, 0, 0>>

\* C7 as stated: the message of a run that ends in file-not-found, in no-data
\* or on a data line with an unparseable number names the input file, and in
\* the last case also the offending line (its text or its number).
C7_Original ==
    ( /\ pc = "done"
      /\ \/ outcome \in {"not_found", "no_data"}
         \/ outcome = "error" /\ idx >= 1 /\ IsBadNumberLine(file, idx) )
        => /\ Contains(out[Len(out)], <<file_path>>)
           /\ outcome = "error" =>
                 \/ Contains(out[Len(out)], Strip(file[idx]))
                 \/ Contains(out[Len(out)], <<"line ", NumStr(idx)>>)

\* C8: f is open only while the loop reads: never during the check, the
\* shift, the rendering or the handler, and never once the function has returned.
C8_HandleScoped == handle => pc = "read"

C8_Witness ==
    /\ RaisedInLoop
    /\ idx >= 2
    /\ ~handle

\* C9: when the first line that raises is a four-token data line with an
\* unparseable number, the loop never goes past it, the check, the shift and
\* the rendering are never entered, and the run ends in the handler's error
\* outcome with objects as the earlier lines left it and the ValueError printed.
C9_AbortsAtBadNumber ==
    \A i \in 1..Len(file) :
        (IsBadNumberLine(file, i) /\ \A j \in 1..(i - 1) : ~LineRaises(file, j))
            => /\ idx <= i
               /\ pc \notin {"check", "shift", "render"}
               /\ k = 0 /\ ~shown.drawn
               /\ outcome \in {"running", "error"}
               /\ pc = "done" =>
                     /\ outcome = "error"
                     /\ idx = i
                     /\ objects = Expected(Prefix(file, i - 1))
                     /\ Len(out) = 1
                     /\ out[1][1] = "An error occurred: "
                     /\ out[1][2] = "could not convert string to float: '"

C9_Witness ==
    /\ pc = "done" /\ outcome = "error"
    /\ idx >= 2 /\ idx < Len(file)
    /\ IsBadNumberLine(file, idx)
    /\ names # <<>>

\* C10 as stated: the stored sensor position always has three components.
C10_Original == Len(scanner_pos) = 3

=============================================================================
